---------------------------- MODULE Spec2Model ----------------------------
(***************************************************************************)
(* geoson: GeoJSON reader (include/geoson/parser.hpp) and writer           *)
(* (include/geoson/writter.hpp).                                           *)
(*                                                                         *)
(* A JSON document is modelled by its tree.  Numbers are integers (the     *)
(* code reads them as doubles; no claim depends on a fraction).  A JSON    *)
(* object whose keys are data (a properties object) is a function from     *)
(* key to JSON value; a JSON value is [kind, v].  A geometry node, a       *)
(* feature entry and the document root are records whose flags say which   *)
(* members are present.  The reader is a sequential process: pc is its     *)
(* position in ReadFeatureCollection, i the index of the feature loop.     *)
(* The file is taken to open and to hold well-formed JSON: the failure to  *)
(* open it (lines 21-23) and the JSON parser's own errors are left out.    *)
(***************************************************************************)
EXTENDS Integers, Sequences, FiniteSets, TLC

(***************************************************************************)
(* Bounds of the explored inputs.                                          *)
(***************************************************************************)
MaxLen == 3        \* positions in a coordinate array: 0..MaxLen
MaxRings == 2      \* rings in a Polygon: 0..MaxRings
MaxFeatures == 2   \* feature entries in a multi-feature document
MaxImports == 2    \* imports in one run: import, export, re-import
MaxParts == 2      \* elements of a MultiLineString, MultiPolygon or GeometryCollection

(***************************************************************************)
(* JSON values.                                                            *)
(***************************************************************************)
JStr(s) == [kind |-> "string", v |-> s]
JNum(n) == [kind |-> "number", v |-> n]
JArr(a) == [kind |-> "array", v |-> a]
JNull == [kind |-> "null", v |-> 0]

\* nlohmann::json::dump() of a non-string value: its JSON text.
RECURSIVE JoinNums(_)
JoinNums(a) ==
    IF Len(a) = 0 THEN ""
    ELSE IF Len(a) = 1 THEN ToString(a[1])
    ELSE ToString(a[1]) \o "," \o JoinNums(Tail(a))

dump(j) ==
    CASE j.kind = "number" -> ToString(j.v)
      [] j.kind = "array" -> "[" \o JoinNums(j.v) \o "]"
      [] j.kind = "null" -> "null"
      [] OTHER -> "\"" \o j.v \o "\""

(***************************************************************************)
(* Results of the operations that can throw.                               *)
(***************************************************************************)
Ok(x) == [ok |-> TRUE, v |-> x]
Throw == [ok |-> FALSE, v |-> <<>>]

RECURSIVE Concat(_)
Concat(ss) == IF Len(ss) = 0 THEN <<>> ELSE Head(ss) \o Concat(Tail(ss))

AllOk(rs) == \A k \in 1..Len(rs) : rs[k].ok
Values(rs) == [k \in 1..Len(rs) |-> rs[k].v]

(***************************************************************************)
(* The geometry model (concord::Point, Line, Path, Polygon) and the        *)
(* collection's tag.                                                       *)
(***************************************************************************)
CRSValues == {"WGS", "ENU"}

\* geoson/types.hpp is not among the sources read here.  What the crs member of a
\* FeatureCollection holds after the default construction `FeatureCollection fc;`
\* is taken to be either tag.
UnassignedCRS == CRSValues

Point(x, y, z) == [x |-> x, y |-> y, z |-> z]
Datum(lat, lon, alt) == [lat |-> lat, lon |-> lon, alt |-> alt]

\* The four variants of Geometry.  A Line holds its start and end as pts[1], pts[2].
PointGeom(p) == [shape |-> "Point", pts |-> <<p>>]
Line(a, b) == [shape |-> "Line", pts |-> <<a, b>>]
Path(ps) == [shape |-> "Path", pts |-> ps]
Polygon(ps) == [shape |-> "Polygon", pts |-> ps]

Feature(g, props) == [geometry |-> g, properties |-> props]

\* concord::WGS::toENU: the projection onto the tangent plane at the datum, to first
\* order (east and north scale with the longitude and latitude differences).
toENU(wgs, datum) ==
    [x |-> 2 * (wgs.lon - datum.lon),
     y |-> 3 * (wgs.lat - datum.lat),
     z |-> wgs.alt - datum.alt]

(***************************************************************************)
(* parser.hpp                                                              *)
(***************************************************************************)
parseProperties(props) ==
    [k \in DOMAIN props |->
        IF props[k].kind = "string" THEN props[k].v ELSE dump(props[k])]

\* parsePoint reading a missing second number as 0 instead of throwing.
parsePointLenient(coords, datum, crs) ==
    IF Len(coords) < 1 THEN Throw
    ELSE LET x == coords[1]
             y == IF Len(coords) > 1 THEN coords[2] ELSE 0
             z == IF Len(coords) > 2 THEN coords[3] ELSE 0
         IN IF crs = "ENU" THEN Ok(Point(x, y, z))
            ELSE LET enu == toENU([lat |-> y, lon |-> x, alt |-> z], datum)
                 IN Ok(Point(enu.x, enu.y, enu.z))

parsePoint(coords, datum, crs) ==
    IF Len(coords) < 2 THEN Throw
    ELSE LET x == coords[1]
             y == coords[2]
             z == IF Len(coords) > 2 THEN coords[3] ELSE 0
         IN IF crs = "ENU" THEN Ok(Point(x, y, z))
            ELSE LET wgs == [lat |-> y, lon |-> x, alt |-> z]
                     enu == toENU(wgs, datum)
                 IN Ok(Point(enu.x, enu.y, enu.z))

\* parseLineString testing pts.size() >= 2.
parseLineStringAtLeastTwo(coords, datum, crs) ==
    LET rs == [k \in 1..Len(coords) |-> parsePoint(coords[k], datum, crs)]
        pts == Values(rs)
    IN IF ~AllOk(rs) THEN Throw
       ELSE IF Len(pts) >= 2 THEN Ok(Line(pts[1], pts[2]))
       ELSE Ok(Path(pts))

parseLineString(coords, datum, crs) ==
    LET rs == [k \in 1..Len(coords) |-> parsePoint(coords[k], datum, crs)]
        pts == Values(rs)
    IN IF ~AllOk(rs) THEN Throw
       ELSE IF Len(pts) = 2 THEN Ok(Line(pts[1], pts[2]))
       ELSE Ok(Path(pts))

\* parsePolygon reading every ring.
parsePolygonEveryRing(coords, datum, crs) ==
    IF Len(coords) = 0 THEN Throw
    ELSE LET ring == Concat(coords)
             rs == [k \in 1..Len(ring) |-> parsePoint(ring[k], datum, crs)]
         IN IF ~AllOk(rs) THEN Throw ELSE Ok(Polygon(Values(rs)))

parsePolygon(coords, datum, crs) ==
    IF Len(coords) = 0 THEN Throw
    ELSE LET ring == coords[1]
             rs == [k \in 1..Len(ring) |-> parsePoint(ring[k], datum, crs)]
         IN IF ~AllOk(rs) THEN Throw ELSE Ok(Polygon(Values(rs)))

\* One result per element of a Multi* coordinate array, or of a lone geometry.
Collect(rs) == IF AllOk(rs) THEN Ok(Values(rs)) ELSE Throw

RECURSIVE parseGeometry(_, _, _)
parseGeometry(geom, datum, crs) ==
    IF geom.kind # "object" \/ ~geom.typed THEN Throw
    ELSE IF geom.type \notin {"Point", "LineString", "Polygon", "MultiPoint",
                              "MultiLineString", "MultiPolygon", "GeometryCollection"}
         THEN Ok(<<>>)
    ELSE IF ~geom.has THEN Throw
    ELSE LET c == geom.value
         IN CASE geom.type = "Point" ->
                    LET r == parsePoint(c, datum, crs)
                    IN IF r.ok THEN Ok(<<PointGeom(r.v)>>) ELSE Throw
              [] geom.type = "LineString" ->
                    Collect(<<parseLineString(c, datum, crs)>>)
              [] geom.type = "Polygon" ->
                    Collect(<<parsePolygon(c, datum, crs)>>)
              [] geom.type = "MultiPoint" ->
                    LET rs == [k \in 1..Len(c) |-> parsePoint(c[k], datum, crs)]
                    IN IF AllOk(rs)
                       THEN Ok([k \in 1..Len(c) |-> PointGeom(rs[k].v)])
                       ELSE Throw
              [] geom.type = "MultiLineString" ->
                    Collect([k \in 1..Len(c) |-> parseLineString(c[k], datum, crs)])
              [] geom.type = "MultiPolygon" ->
                    Collect([k \in 1..Len(c) |-> parsePolygon(c[k], datum, crs)])
              [] OTHER ->
                    LET rs == [k \in 1..Len(c) |-> parseGeometry(c[k], datum, crs)]
                    IN IF AllOk(rs) THEN Ok(Concat(Values(rs))) ELSE Throw

\* parseCRS falling back to ENU instead of throwing.
parseCRSFallback(s) ==
    IF s \in {"EPSG:4326", "WGS84", "WGS"} THEN Ok("WGS") ELSE Ok("ENU")

parseCRS(s) ==
    IF s \in {"EPSG:4326", "WGS84", "WGS"} THEN Ok("WGS")
    ELSE IF s \in {"ENU", "ECEF"} THEN Ok("ENU")
    ELSE Throw


\* op::ReadFeatureCollection: the document as a FeatureCollection object.
WrapFeatures(feats) == [propsKind |-> "absent", properties |-> <<>>, features |-> feats]

FeatureEntry(hasG, g, hasP, p) ==
    [hasGeometry |-> hasG, geometry |-> g, hasProperties |-> hasP, properties |-> p]

opReadFeatureCollection(j) ==
    IF ~j.typed THEN Throw
    ELSE IF j.type = "FeatureCollection" THEN Ok(j.value)
    ELSE IF j.type = "Feature" THEN Ok(WrapFeatures(<<j.value>>))
    ELSE Ok(WrapFeatures(<<FeatureEntry(TRUE, j.value, TRUE, <<>>)>>))

\* Lines 142-151: the checks of the top-level properties; the message thrown, or "".
validateProperties(fj) ==
    LET P == fj.properties
    IN IF fj.propsKind # "object" THEN "missing top-level 'properties'"
       ELSE IF "crs" \notin DOMAIN P \/ P["crs"].kind # "string"
            THEN "'properties' missing string 'crs'"
       ELSE IF "datum" \notin DOMAIN P \/ P["datum"].kind # "array" \/ Len(P["datum"].v) < 3
            THEN "'properties' missing array 'datum' of >=3 numbers"
       ELSE IF "heading" \notin DOMAIN P \/ P["heading"].kind # "number"
            THEN "'properties' missing numeric 'heading'"
       ELSE ""

ReservedKeys == {"crs", "datum", "heading"}

\* globalProperties without the exclusion of line 167.
globalPropertiesEveryKey(P) ==
    [k \in DOMAIN P |-> IF P[k].kind = "string" THEN P[k].v ELSE dump(P[k])]

\* Lines 166-174.
globalProperties(P) ==
    [k \in DOMAIN P \ ReservedKeys |->
        IF P[k].kind = "string" THEN P[k].v ELSE dump(P[k])]

\* featureGeometries testing feat["geometry"] only when the member is present.
featureGeometriesPresentOnly(feat, datum, crs) ==
    IF feat.hasGeometry /\ feat.geometry.kind = "null" THEN Ok(<<>>)
    ELSE parseGeometry(feat.geometry, datum, crs)

\* Lines 177-182: what one feature entry adds to fc.features.
featureGeometries(feat, datum, crs) ==
    IF ~feat.hasGeometry \/ feat.geometry.kind = "null" THEN Ok(<<>>)
    ELSE parseGeometry(feat.geometry, datum, crs)

featureProperties(feat) ==
    parseProperties(IF feat.hasProperties THEN feat.properties ELSE <<>>)

(***************************************************************************)
(* writter.hpp                                                             *)
(***************************************************************************)
ptCoords(p) == <<p.x, p.y, p.z>>

Node(t, c) == [kind |-> "object", typed |-> TRUE, type |-> t, has |-> TRUE, value |-> c]

geometryToJson(geom) ==
    CASE geom.shape = "Point" -> Node("Point", ptCoords(geom.pts[1]))
      [] geom.shape = "Line" ->
            Node("LineString", <<ptCoords(geom.pts[1]), ptCoords(geom.pts[2])>>)
      [] geom.shape = "Path" ->
            Node("LineString", [k \in 1..Len(geom.pts) |-> ptCoords(geom.pts[k])])
      [] OTHER ->
            Node("Polygon", <<[k \in 1..Len(geom.pts) |-> ptCoords(geom.pts[k])]>>)

featureToJson(f) ==
    FeatureEntry(TRUE, geometryToJson(f.geometry), TRUE,
                 [k \in DOMAIN f.properties |-> JStr(f.properties[k])])

crsToString(crs) == IF crs = "WGS" THEN "EPSG:4326" ELSE "ENU"

toJson(c) ==
    [typed |-> TRUE, type |-> "FeatureCollection",
     value |-> [propsKind |-> "object",
                properties |-> [crs |-> JStr(crsToString(c.crs)),
                                datum |-> JArr(<<c.datum.lat, c.datum.lon, c.datum.alt>>),
                                heading |-> JNum(c.heading.yaw)],
                features |-> [k \in 1..Len(c.features) |-> featureToJson(c.features[k])]]]

(***************************************************************************)
(* The explored documents.                                                 *)
(***************************************************************************)
\* Sequences over S of length 0..n.
RECURSIVE SeqsUpTo(_, _)
SeqsUpTo(S, n) ==
    IF n = 0 THEN {<<>>}
    ELSE LET shorter == SeqsUpTo(S, n - 1)
         IN shorter \cup {Append(q, e) : q \in {t \in shorter : Len(t) = n - 1}, e \in S}

\* The position numbered b, written with d numbers (d < 2 is too short to read).
Position(b, d) == SubSeq(<<b, b + 4, b + 8>>, 1, d)
\* n consecutive positions from b on, each of d numbers.
CoordArray(b, n, d) == [k \in 1..n |-> Position(b + k - 1, d)]
\* A Polygon's coordinates: n rings of MaxLen positions; the first ring's positions
\* have d1 numbers, the later rings' d2.
Rings(n, d1, d2) ==
    [r \in 1..n |-> CoordArray(1 + MaxLen * (r - 1), MaxLen, IF r = 1 THEN d1 ELSE d2)]

NoMember(t) == [kind |-> "object", typed |-> TRUE, type |-> t, has |-> FALSE, value |-> <<>>]
Untyped == [kind |-> "object", typed |-> FALSE, type |-> "", has |-> FALSE, value |-> <<>>]
NullNode == [kind |-> "null", typed |-> FALSE, type |-> "", has |-> FALSE, value |-> <<>>]
Unknown == NoMember("Circle")

KnownTypes ==
    {"Point", "LineString", "Polygon", "MultiPoint", "MultiLineString", "MultiPolygon",
     "GeometryCollection"}

CoordArrays == {CoordArray(1, n, d) : n \in 0..MaxLen, d \in 1..3}
PolygonCoords == {Rings(n, d1, d2) : n \in 0..MaxRings, d1 \in 1..3, d2 \in 1..3}

PointNodes == {Node("Point", Position(1, d)) : d \in 0..3}
LineStringNodes == {Node("LineString", a) : a \in CoordArrays}
PolygonNodes == {Node("Polygon", c) : c \in PolygonCoords}
MultiPointNodes == {Node("MultiPoint", a) : a \in CoordArrays}
MultiLineStringNodes ==
    {Node("MultiLineString", c) :
        c \in SeqsUpTo({CoordArray(1, 2, 2), CoordArray(2, MaxLen, 3), CoordArray(1, 1, 1)}, MaxParts)}
MultiPolygonNodes ==
    {Node("MultiPolygon", c) :
        c \in SeqsUpTo({Rings(1, 2, 2), Rings(MaxRings, 3, 1), Rings(0, 2, 2)}, MaxParts)}

LeafNodes ==
    {Node("Point", Position(1, 2)), Node("LineString", CoordArray(2, 3, 3)), Unknown, Untyped}
FlatCollections == {Node("GeometryCollection", c) : c \in SeqsUpTo(LeafNodes, MaxParts)}
NestedCollections ==
    {Node("GeometryCollection", <<g, Node("Point", Position(3, 3))>>) : g \in FlatCollections}
    \cup {Node("GeometryCollection", <<Node("MultiPoint", CoordArray(3, 2, 2)), g>>) :
            g \in FlatCollections}

GeometryNodes ==
    PointNodes \cup LineStringNodes \cup PolygonNodes \cup MultiPointNodes
    \cup MultiLineStringNodes \cup MultiPolygonNodes
    \cup FlatCollections \cup NestedCollections
    \cup {NoMember(t) : t \in KnownTypes} \cup {Unknown, Untyped, NullNode}

\* A feature's properties member.
PropsA == [name |-> JStr("a")]
PropsB == [name |-> JStr("b"), lanes |-> JNum(2)]

\* The feature entries of the single-feature documents.
RichFeatures ==
    {FeatureEntry(TRUE, g, TRUE, PropsA) : g \in GeometryNodes}
    \cup {FeatureEntry(FALSE, NullNode, TRUE, PropsA)}

\* The feature entries of the multi-feature documents.
FewFeatures ==
    {FeatureEntry(TRUE, Node("Point", Position(1, 2)), TRUE, PropsA),
     FeatureEntry(TRUE, Node("Point", Position(2, 3)), FALSE, <<>>),
     FeatureEntry(TRUE, Node("LineString", CoordArray(1, 2, 2)), TRUE, PropsB),
     FeatureEntry(TRUE, Node("MultiPoint", CoordArray(3, 2, 3)), TRUE, PropsB),
     FeatureEntry(TRUE, Node("GeometryCollection",
                             <<Node("Point", Position(1, 2)),
                               Node("LineString", CoordArray(2, 3, 3))>>), TRUE, PropsA),
     FeatureEntry(TRUE, Node("Polygon", Rings(2, 2, 2)), TRUE, PropsA),
     FeatureEntry(TRUE, NullNode, TRUE, PropsB),
     FeatureEntry(FALSE, NullNode, TRUE, PropsA),
     FeatureEntry(TRUE, Unknown, TRUE, PropsB),
     FeatureEntry(TRUE, Node("Point", Position(1, 1)), TRUE, PropsA),
     FeatureEntry(TRUE, Untyped, TRUE, PropsA),
     FeatureEntry(TRUE, Node("GeometryCollection",
                             <<Unknown, Node("Point", Position(2, 3))>>), TRUE, PropsB)}

\* The top-level properties object: the members that are present.
JAbsent == [kind |-> "absent", v |-> 0]
Header(crs, datum, heading, extras) ==
    LET all == [crs |-> crs, datum |-> datum, heading |-> heading]
    IN [k \in {m \in DOMAIN all : all[m].kind # "absent"} |-> all[k]] @@ extras

CrsMembers ==
    {JAbsent, JNum(4326)} \cup {JStr(s) : s \in {"EPSG:4326", "WGS84", "WGS", "ENU", "ECEF", "enu"}}
DatumMembers ==
    {JAbsent, JStr("origin"), JArr(<<1, 2>>), JArr(<<0, 0, 0>>), JArr(<<1, 2, 3>>),
     JArr(<<1, 2, 3, 4>>)}
HeadingMembers == {JAbsent, JStr("north"), JNum(0), JNum(90)}
ExtraMembers ==
    {<<>>, [name |-> JStr("field")], [name |-> JStr("field"), area |-> JNum(7), tags |-> JNull]}

Headers ==
    {Header(c, d, h, e) :
        c \in CrsMembers, d \in DatumMembers, h \in HeadingMembers, e \in ExtraMembers}
GoodHeaders ==
    {Header(JStr("ENU"), JArr(<<1, 2, 3>>), JNum(90), [name |-> JStr("field")]),
     Header(JStr("WGS84"), JArr(<<1, 2, 3>>), JNum(0), <<>>)}

Collection(kind, props, feats) ==
    [typed |-> TRUE, type |-> "FeatureCollection",
     value |-> [propsKind |-> kind, properties |-> props, features |-> feats]]

TwoFeatures ==
    <<FeatureEntry(TRUE, Node("Point", Position(1, 3)), TRUE, PropsA),
      FeatureEntry(TRUE, Node("LineString", CoordArray(1, 2, 2)), TRUE, PropsB)>>

\* Documents that vary the top-level properties.
HeaderDocs ==
    {Collection("object", h, TwoFeatures) : h \in Headers}
    \cup {Collection("absent", <<>>, TwoFeatures), Collection("other", <<>>, TwoFeatures)}
\* Documents of one feature, over every explored geometry.
GeometryDocs == {Collection("object", h, <<f>>) : h \in GoodHeaders, f \in RichFeatures}
\* Documents of 0..MaxFeatures features.
FeatureDocs ==
    {Collection("object", h, fs) : h \in GoodHeaders, fs \in SeqsUpTo(FewFeatures, MaxFeatures)}
\* Documents whose root is a Feature, a bare geometry, or has no string type.
LoneFeatureDocs ==
    {[typed |-> TRUE, type |-> "Feature", value |-> f] :
        f \in FewFeatures
              \cup {FeatureEntry(TRUE, Node("Point", Position(1, 3)), TRUE, h) : h \in GoodHeaders}}
BareGeometryDocs ==
    {[typed |-> TRUE, type |-> g.type, value |-> g] :
        g \in PointNodes \cup LineStringNodes \cup {Unknown}}
UntypedDoc == [typed |-> FALSE, type |-> "", value |-> <<>>]

(***************************************************************************)
(* State.                                                                  *)
(***************************************************************************)
VARIABLES
    doc,       \* the document in the file being read
    pc,        \* the reader's position, then the writer's
    fc_json,   \* the document as a FeatureCollection object (line 140)
    crsVal,    \* line 154
    fc,        \* the FeatureCollection under construction (line 160)
    i,         \* feature entries the loop of line 176 has examined
    origin,    \* for each feature of fc, the index of the entry it came from
    ret,       \* what the import returned
    out,       \* the document the writer produced
    imports,   \* imports started
    first,     \* the document and the result of the first import
    err        \* the message of the exception that ended the import

vars == <<doc, pc, fc_json, crsVal, fc, i, origin, ret, out, imports, first, err>>

NoJson == WrapFeatures(<<>>)
NoFC ==
    [crs |-> "WGS", datum |-> Datum(0, 0, 0), heading |-> [roll |-> 0, pitch |-> 0, yaw |-> 0],
     features |-> <<>>, global_properties |-> <<>>]
NoDoc == UntypedDoc
NoReturn == [returned |-> FALSE, fc |-> NoFC]

\* The reader's locals before the call.
Locals ==
    /\ pc = "read"
    /\ fc_json = NoJson
    /\ crsVal = "WGS"
    /\ fc = NoFC
    /\ i = 0
    /\ origin = <<>>
    /\ ret = NoReturn
    /\ err = ""

Init ==
    /\ \/ doc \in HeaderDocs
       \/ doc \in GeometryDocs
       \/ doc \in FeatureDocs
       \/ doc \in LoneFeatureDocs
       \/ doc \in BareGeometryDocs
       \/ doc = UntypedDoc
    /\ Locals
    /\ out = NoDoc
    /\ imports = 1
    /\ first = [doc |-> doc, ret |-> NoReturn]

(***************************************************************************)
(* ReadFeatureCollection, step by step.                                    *)
(***************************************************************************)
\* Line 140.
OpRead ==
    /\ pc = "read"
    /\ LET r == opReadFeatureCollection(doc)
       IN IF r.ok THEN pc' = "validate" /\ fc_json' = r.v /\ UNCHANGED err
          ELSE /\ pc' = "error"
               /\ err' = "top-level object has no string 'type' field"
               /\ UNCHANGED fc_json
    /\ UNCHANGED <<doc, crsVal, fc, i, origin, ret, out, imports, first>>

\* Lines 142-151.
Validate ==
    /\ pc = "validate"
    /\ err' = validateProperties(fc_json)
    /\ pc' = IF err' = "" THEN "extract" ELSE "error"
    /\ UNCHANGED <<doc, fc_json, crsVal, fc, i, origin, ret, out, imports, first>>

\* Lines 154-163.  fc.crs is not assigned: it keeps what the default construction
\* of line 160 left in it.
Extract ==
    /\ pc = "extract"
    /\ LET P == fc_json.properties
           r == parseCRS(P["crs"].v)
           A == P["datum"].v
       IN IF ~r.ok
          THEN pc' = "error" /\ err' = "Unknown CRS string" /\ UNCHANGED <<crsVal, fc>>
          ELSE /\ pc' = "globals"
               /\ UNCHANGED err
               /\ crsVal' = r.v
               /\ \E c \in UnassignedCRS :
                     fc' = [crs |-> c,
                            datum |-> Datum(A[1], A[2], A[3]),
                            heading |-> [roll |-> 0, pitch |-> 0, yaw |-> P["heading"].v],
                            features |-> <<>>,
                            global_properties |-> <<>>]
    /\ UNCHANGED <<doc, fc_json, i, origin, ret, out, imports, first>>

\* Lines 166-174.
Globals ==
    /\ pc = "globals"
    /\ fc' = [fc EXCEPT !.global_properties = globalProperties(fc_json.properties)]
    /\ pc' = "features"
    /\ UNCHANGED <<doc, fc_json, crsVal, i, origin, ret, out, imports, first, err>>

\* ParseFeature moving props_map into the first Feature it builds.
ParseFeatureMovedProps ==
    /\ pc = "features"
    /\ i < Len(fc_json.features)
    /\ LET feat == fc_json.features[i + 1]
           r == featureGeometries(feat, fc.datum, crsVal)
           props_map == featureProperties(feat)
       IN IF ~r.ok
          THEN pc' = "error" /\ err' = "json.exception" /\ UNCHANGED <<fc, i, origin>>
          ELSE /\ UNCHANGED err
               /\ fc' = [fc EXCEPT !.features =
                            @ \o [k \in 1..Len(r.v) |->
                                    Feature(r.v[k], IF k = 1 THEN props_map ELSE <<>>)]]
               /\ origin' = origin \o [k \in 1..Len(r.v) |-> i + 1]
               /\ i' = i + 1
               /\ pc' = pc
    /\ UNCHANGED <<doc, fc_json, crsVal, ret, out, imports, first>>

\* Lines 176-183: one iteration of the loop over the feature entries.
ParseFeature ==
    /\ pc = "features"
    /\ i < Len(fc_json.features)
    /\ LET feat == fc_json.features[i + 1]
           r == featureGeometries(feat, fc.datum, crsVal)
           props_map == featureProperties(feat)
       IN IF ~r.ok
          THEN pc' = "error" /\ err' = "json.exception" /\ UNCHANGED <<fc, i, origin>>
          ELSE /\ UNCHANGED err
               /\ fc' = [fc EXCEPT !.features =
                            @ \o [k \in 1..Len(r.v) |-> Feature(r.v[k], props_map)]]
               /\ origin' = origin \o [k \in 1..Len(r.v) |-> i + 1]
               /\ i' = i + 1
               /\ pc' = pc
    /\ UNCHANGED <<doc, fc_json, crsVal, ret, out, imports, first>>

\* Line 185.
Return ==
    /\ pc = "features"
    /\ i = Len(fc_json.features)
    /\ ret' = [returned |-> TRUE, fc |-> fc]
    /\ pc' = "done"
    /\ first' = IF imports = 1 THEN [first EXCEPT !.ret = ret'] ELSE first
    /\ UNCHANGED <<doc, fc_json, crsVal, fc, i, origin, out, imports, err>>

(***************************************************************************)
(* WriteFeatureCollection of the returned collection, and the import of    *)
(* the file it wrote.                                                      *)
(***************************************************************************)
Write ==
    /\ pc = "done"
    /\ out' = toJson(ret.fc)
    /\ pc' = "written"
    /\ UNCHANGED <<doc, fc_json, crsVal, fc, i, origin, ret, imports, first, err>>

ReadBack ==
    /\ pc = "written"
    /\ imports < MaxImports
    /\ doc' = out
    /\ imports' = imports + 1
    /\ pc' = "read"
    /\ fc_json' = NoJson
    /\ crsVal' = "WGS"
    /\ fc' = NoFC
    /\ i' = 0
    /\ origin' = <<>>
    /\ ret' = NoReturn
    /\ err' = ""
    /\ UNCHANGED <<out, first>>

Next ==
    \/ OpRead
    \/ Validate
    \/ Extract
    \/ Globals
    \/ ParseFeature
    \/ Return
    \/ Write
    \/ ReadBack

Spec == Init /\ [][Next]_vars

(***************************************************************************)
(* What the claims speak of.                                               *)
(***************************************************************************)
\* The features fc holds that came from entry k, in order.
Produced(k) ==
    LET before == Cardinality({j \in DOMAIN origin : origin[j] < k})
        from == Cardinality({j \in DOMAIN origin : origin[j] = k})
    IN SubSeq(fc.features, before + 1, before + from)

\* The leaf geometries of a geometry node in document order: for each, the GeoJSON
\* type it has and its coordinates member.
RECURSIVE Leaves(_)
Leaves(g) ==
    LET each(t) == [k \in 1..Len(g.value) |-> [of |-> t, coordinates |-> g.value[k]]]
    IN CASE g.type \in {"Point", "LineString", "Polygon"} ->
                <<[of |-> g.type, coordinates |-> g.value]>>
         [] g.type = "MultiPoint" -> each("Point")
         [] g.type = "MultiLineString" -> each("LineString")
         [] g.type = "MultiPolygon" -> each("Polygon")
         [] g.type = "GeometryCollection" ->
                Concat([k \in 1..Len(g.value) |-> Leaves(g.value[k])])
         [] OTHER -> <<>>

NoGeometry(feat) == ~feat.hasGeometry \/ feat.geometry.kind = "null"
EntryLeaves(feat) == IF NoGeometry(feat) THEN <<>> ELSE Leaves(feat.geometry)

\* The stored point a position of the document stands for, under the document's crs.
Stored(c) ==
    LET z == IF Len(c) > 2 THEN c[3] ELSE 0
    IN IF crsVal = "ENU" THEN Point(c[1], c[2], z)
       ELSE LET e == toENU([lat |-> c[2], lon |-> c[1], alt |-> z], fc.datum)
            IN Point(e.x, e.y, e.z)
StoredAll(cs) == [k \in 1..Len(cs) |-> Stored(cs[k])]

\* The entries the loop has converted so far.
Converted == IF pc \in {"features", "done", "written"} THEN 1..i ELSE {}

\* C1: a LineString coordinate array of exactly 2 positions becomes a Line from the
\* first to the second; one of any other length becomes a Path of the same positions
\* in the same order.  This holds for a LineString at the top of a feature, for each
\* sub-array of a MultiLineString and for a LineString inside a GeometryCollection.
C1_LineOrPath ==
    \A k \in Converted :
        LET leaves == EntryLeaves(fc_json.features[k])
            got == Produced(k)
        IN /\ Len(got) = Len(leaves)
           /\ \A m \in 1..Len(leaves) :
                 leaves[m].of = "LineString" =>
                    LET cs == leaves[m].coordinates
                        g == got[m].geometry
                    IN /\ g.pts = StoredAll(cs)
                       /\ g.shape = IF Len(cs) = 2 THEN "Line" ELSE "Path"

C1_Witness ==
    /\ pc = "done"
    /\ \E k \in 1..i :
          /\ fc_json.features[k].geometry.type = "MultiLineString"
          /\ \E m, n \in 1..Len(Produced(k)) :
                /\ Produced(k)[m].geometry.shape = "Line"
                /\ Produced(k)[n].geometry.shape = "Path"
                /\ Len(Produced(k)[n].geometry.pts) = MaxLen

\* The stored points of the second and later rings.
LaterRingPoints(rings) ==
    {Stored(rings[r][n]) : <<r, n>> \in
        {q \in (2..Len(rings)) \X (1..MaxLen + 1) :
            q[2] <= Len(rings[q[1]]) /\ Len(rings[q[1]][q[2]]) >= 2}}

FirstRingReadable(rings) ==
    Len(rings) >= 1 /\ \A n \in 1..Len(rings[1]) : Len(rings[1][n]) >= 2

\* The geometry node an entry holds needs only first rings to be readable.
RECURSIVE OnlyPolygons(_)
OnlyPolygons(g) ==
    /\ g.kind = "object" /\ g.typed /\ g.has
    /\ g.type \in {"Polygon", "MultiPolygon"}
    /\ \A m \in 1..Len(Leaves(g)) : FirstRingReadable(Leaves(g)[m].coordinates)

\* C2: a Polygon with one or more rings, and each element of a MultiPolygon, becomes
\* a Polygon of exactly the first ring's positions in order; no position of a later
\* ring is in any feature, and the later rings do not make the import fail.
C2_FirstRingOnly ==
    /\ \A k \in Converted :
          LET leaves == EntryLeaves(fc_json.features[k])
              got == Produced(k)
          IN /\ Len(got) = Len(leaves)
             /\ \A m \in 1..Len(leaves) :
                   leaves[m].of = "Polygon" =>
                      /\ got[m].geometry = Polygon(StoredAll(leaves[m].coordinates[1]))
                      /\ \A j \in 1..Len(fc.features) :
                            \A n \in 1..Len(fc.features[j].geometry.pts) :
                               fc.features[j].geometry.pts[n]
                                  \notin LaterRingPoints(leaves[m].coordinates)
    /\ (pc = "error" /\ err = "json.exception") =>
          ~OnlyPolygons(fc_json.features[i + 1].geometry)

C2_Witness ==
    /\ pc = "done"
    /\ \E k \in 1..i :
          LET g == fc_json.features[k].geometry
          IN /\ g.type = "MultiPolygon"
             /\ \E m \in 1..Len(g.value) :
                   /\ Len(g.value[m]) >= 2
                   /\ Len(g.value[m][2][1]) < 2
                   /\ Produced(k)[m].geometry.shape = "Polygon"
                   /\ Len(Produced(k)[m].geometry.pts) = MaxLen

\* The text of a property value.
Text(j) ==
    CASE j.kind = "string" -> j.v
      [] j.kind = "number" -> ToString(j.v)
      [] OTHER -> "null"

EntryAttributes(feat) ==
    IF feat.hasProperties
    THEN [key \in DOMAIN feat.properties |-> Text(feat.properties[key])]
    ELSE <<>>

LeafGeometry(leaf) ==
    LET c == leaf.coordinates
    IN CASE leaf.of = "Point" -> PointGeom(Stored(c))
         [] leaf.of = "LineString" ->
                IF Len(c) = 2 THEN Line(Stored(c[1]), Stored(c[2])) ELSE Path(StoredAll(c))
         [] OTHER -> Polygon(StoredAll(c[1]))

EntryFeatures(feat) ==
    [m \in 1..Len(EntryLeaves(feat)) |->
        Feature(LeafGeometry(EntryLeaves(feat)[m]), EntryAttributes(feat))]

\* C3: a successful import returns, in the order of the feature entries, one Feature
\* per leaf geometry of each entry (the elements of a Multi* geometry, the
\* sub-geometries of a GeometryCollection flattened in order, nested ones included),
\* each with the attributes parsed from its entry.
C3_Expansion ==
    pc = "done" =>
        ret.fc.features =
            Concat([k \in 1..Len(fc_json.features) |-> EntryFeatures(fc_json.features[k])])

C3_Witness ==
    /\ pc = "done"
    /\ Len(fc_json.features) = 2
    /\ fc_json.features[1].geometry =
          Node("GeometryCollection",
               <<Node("Point", Position(1, 2)), Node("LineString", CoordArray(2, 3, 3))>>)
    /\ fc_json.features[2].geometry.type = "MultiPoint"
    /\ Len(ret.fc.features) = 4
    /\ ret.fc.features[1].geometry.shape = "Point"
    /\ ret.fc.features[2].geometry.shape = "Path"
    /\ ret.fc.features[1].properties = ret.fc.features[2].properties
    /\ ret.fc.features[2].properties # ret.fc.features[3].properties

\* The top-level properties fail one of the checks of lines 142-151 and 154.
HeaderRejected(d) ==
    /\ d.typed /\ d.type = "FeatureCollection"
    /\ LET P == d.value.properties
       IN \/ d.value.propsKind # "object"
          \/ "crs" \notin DOMAIN P
          \/ "datum" \notin DOMAIN P
          \/ "heading" \notin DOMAIN P
          \/ P["crs"].kind # "string"
          \/ P["datum"].kind # "array"
          \/ Len(P["datum"].v) < 3
          \/ P["heading"].kind # "number"
          \/ P["crs"].v \notin {"EPSG:4326", "WGS84", "WGS", "ENU", "ECEF"}

\* C4: a document whose top-level properties, crs, datum or heading is missing or of
\* the wrong kind, or whose crs is no accepted alias, fails to import before any
\* feature entry is examined: no Feature is built and nothing is returned.
C4_HeaderFirst ==
    HeaderRejected(doc) =>
        /\ pc \in {"read", "validate", "extract", "error"}
        /\ i = 0
        /\ fc = NoFC
        /\ ~ret.returned
        /\ out = NoDoc
        /\ ~ENABLED Next => pc = "error"

C4_Witness ==
    /\ pc = "error"
    /\ HeaderRejected(doc)
    /\ "datum" \notin DOMAIN doc.value.properties
    /\ "crs" \in DOMAIN doc.value.properties
    /\ Len(doc.value.features) > 0
    /\ i = 0

\* The one feature entry a Feature or bare-geometry document stands for.
LoneEntry(d) ==
    IF d.type = "Feature" THEN d.value ELSE FeatureEntry(TRUE, d.value, TRUE, <<>>)

\* C5: a document whose root is a Feature, or a bare geometry, is imported as the
\* collection of that one feature: when its geometry is readable, the import does not
\* fail.
C5_Wrapped ==
    (/\ doc.typed
     /\ doc.type # "FeatureCollection"
     /\ featureGeometries(LoneEntry(doc), Datum(0, 0, 0), "ENU").ok)
        => pc # "error"

\* The items the reader skips, and a document without them.
UnknownType(g) == g.kind = "object" /\ g.typed /\ g.type \notin KnownTypes
Skipped(feat) == NoGeometry(feat) \/ UnknownType(feat.geometry)

RECURSIVE Prune(_)
Prune(g) ==
    IF g.kind = "object" /\ g.typed /\ g.has /\ g.type = "GeometryCollection"
    THEN LET kept == SelectSeq(g.value, LAMBDA sub : ~UnknownType(sub))
         IN Node(g.type, [k \in 1..Len(kept) |-> Prune(kept[k])])
    ELSE g

PruneEntries(feats) ==
    LET kept == SelectSeq(feats, LAMBDA feat : ~Skipped(feat))
    IN [k \in 1..Len(kept) |-> [kept[k] EXCEPT !.geometry = Prune(@)]]

\* The loop of lines 176-183 over a whole list of entries.
RECURSIVE ReadEntries(_, _, _)
ReadEntries(feats, datum, crs) ==
    IF Len(feats) = 0 THEN Ok(<<>>)
    ELSE LET r == featureGeometries(Head(feats), datum, crs)
             rest == ReadEntries(Tail(feats), datum, crs)
         IN IF ~r.ok \/ ~rest.ok THEN Throw
            ELSE Ok([k \in 1..Len(r.v) |-> Feature(r.v[k], featureProperties(Head(feats)))]
                    \o rest.v)

\* C6: an entry whose geometry is null or absent, and a geometry node of an
\* unrecognized type, add no Feature and do not make the import fail; the import
\* returns what it returns for the document without them.
C6_SilentSkip ==
    /\ \A k \in Converted : Skipped(fc_json.features[k]) => Produced(k) = <<>>
    /\ (pc = "error" /\ err = "json.exception") =>
          /\ ~Skipped(fc_json.features[i + 1])
          /\ ~ReadEntries(PruneEntries(fc_json.features), fc.datum, crsVal).ok
    /\ pc = "done" =>
          ReadEntries(PruneEntries(fc_json.features), fc.datum, crsVal) = Ok(ret.fc.features)

C6_Witness ==
    /\ pc = "done"
    /\ Len(fc_json.features) = 2
    /\ NoGeometry(fc_json.features[1])
    /\ fc_json.features[2].geometry =
          Node("GeometryCollection", <<Unknown, Node("Point", Position(2, 3))>>)
    /\ Len(ret.fc.features) = 1

\* The GeoJSON geometry a stored geometry is written as.
TaggedENU(d) ==
    /\ d.typed /\ d.type = "FeatureCollection"
    /\ d.value.propsKind = "object"
    /\ "crs" \in DOMAIN d.value.properties
    /\ d.value.properties["crs"] = JStr("ENU")

Written(g) ==
    LET cs == [k \in 1..Len(g.pts) |-> <<g.pts[k].x, g.pts[k].y, g.pts[k].z>>]
    IN CASE g.shape = "Point" -> Node("Point", cs[1])
         [] g.shape \in {"Line", "Path"} -> Node("LineString", cs)
         [] OTHER -> Node("Polygon", <<cs>>)

Geometries(c) == [k \in 1..Len(c.features) |-> c.features[k].geometry]

\* The part of C7 about the export alone: each written geometry is the stored one.
C7_ExportedAsImported ==
    (TaggedENU(first.doc) /\ pc = "written") =>
        /\ Len(out.value.features) = Len(ret.fc.features)
        /\ \A k \in 1..Len(ret.fc.features) :
              out.value.features[k].geometry = Written(ret.fc.features[k].geometry)

C8_TagSurvives ==
    pc \in {"done", "written"} =>
        LET s == doc.value.properties["crs"].v
            geodetic == s \in {"EPSG:4326", "WGS84", "WGS"}
        IN /\ ret.fc.crs = IF geodetic THEN "WGS" ELSE "ENU"
           /\ pc = "written" =>
                 out.value.properties["crs"] = JStr(IF geodetic THEN "EPSG:4326" ELSE "ENU")

\* C9: the exported document's top-level properties holds exactly crs, datum (the
\* array lat, lon, alt) and heading (the yaw), and none of the collection's global
\* attributes; the import collects every top-level property but those three into the
\* global attributes, and never one of the three.
C9_ReservedKeysOnly ==
    /\ pc = "written" =>
          LET P == out.value.properties
              D == doc.value.properties
          IN /\ out.value.propsKind = "object"
             /\ DOMAIN P = {"crs", "datum", "heading"}
             /\ P["datum"] = JArr(SubSeq(D["datum"].v, 1, 3))
             /\ P["datum"].v = <<ret.fc.datum.lat, ret.fc.datum.lon, ret.fc.datum.alt>>
             /\ P["heading"] = JNum(ret.fc.heading.yaw)
             /\ P["heading"] = D["heading"]
             /\ DOMAIN ret.fc.global_properties \cap DOMAIN P = {}
    /\ pc \in {"features", "done", "written"} =>
          /\ DOMAIN fc.global_properties = DOMAIN doc.value.properties \ {"crs", "datum", "heading"}
          /\ \A key \in DOMAIN fc.global_properties :
                fc.global_properties[key] = Text(doc.value.properties[key])

C9_Witness ==
    /\ pc = "written"
    /\ imports = 1
    /\ DOMAIN ret.fc.global_properties = {"name", "area", "tags"}
    /\ Len(doc.value.properties["datum"].v) = 4

\* The positions of a geometry node, those of a Polygon taken from the given rings.
RECURSIVE Positions(_, _)
Positions(g, rings) ==
    LET ofRings(rs) ==
            UNION {{rs[r][n] : n \in 1..Len(rs[r])} : r \in 1..Len(rs) \cap rings}
    IN CASE g.type = "Point" -> {g.value}
         [] g.type \in {"LineString", "MultiPoint"} -> {g.value[n] : n \in 1..Len(g.value)}
         [] g.type \in {"Polygon", "MultiLineString"} ->
                IF g.type = "Polygon" THEN ofRings(g.value)
                ELSE UNION {{g.value[m][n] : n \in 1..Len(g.value[m])} : m \in 1..Len(g.value)}
         [] OTHER -> UNION {ofRings(g.value[m]) : m \in 1..Len(g.value)}

\* rings: the rings of a Polygon whose positions count.
RECURSIVE Malformed(_, _)
Malformed(g, rings) ==
    \/ g.kind # "object"
    \/ ~g.typed
    \/ /\ g.type \in KnownTypes
       /\ \/ ~g.has
          \/ g.type = "Polygon" /\ Len(g.value) = 0
          \/ g.type = "MultiPolygon" /\ \E m \in 1..Len(g.value) : Len(g.value[m]) = 0
          \/ g.type = "GeometryCollection"
                /\ \E m \in 1..Len(g.value) : Malformed(g.value[m], rings)
          \/ g.type # "GeometryCollection"
                /\ \E c \in Positions(g, rings) : Len(c) < 2

MalformedEntry(feat, rings) == ~NoGeometry(feat) /\ Malformed(feat.geometry, rings)

NothingReturned ==
    /\ ~ret.returned
    /\ pc \notin {"done", "written"}
    /\ ~ENABLED Next => pc = "error"

\* C10: a malformed geometry is not skipped.  When some feature entry holds a non-null
\* geometry with no string type, a recognized geometry without its coordinates (or
\* geometries) member, a Polygon or MultiPolygon element of zero rings, or a position
\* of fewer than 2 numbers, the import fails and returns nothing, the features of the
\* earlier entries included.
C10_AnyPosition ==
    (pc # "read" /\ \E k \in 1..Len(fc_json.features) :
                        MalformedEntry(fc_json.features[k], 1..MaxRings + 1))
        => NothingReturned

\* C10, amended: as C10, with the positions of fewer than 2 numbers counted only where
\* the reader reads them: every position but those of the second and later rings of
\* a Polygon or of a MultiPolygon element.
C10_ReadPositions ==
    (pc # "read" /\ \E k \in 1..Len(fc_json.features) :
                        MalformedEntry(fc_json.features[k], {1}))
        => NothingReturned

C10_Witness ==
    /\ pc = "error"
    /\ err = "json.exception"
    /\ i = 1
    /\ Len(fc.features) > 0
    /\ MalformedEntry(fc_json.features[2], {1})
    /\ ~MalformedEntry(fc_json.features[1], {1})
    /\ ~ret.returned

=============================================================================
